---- MODULE Spec2Model ----
(***************************************************************************)
(* fmw-utils (src/index.js): the fmFetch call bridge and the booting of    *)
(* the page.                                                               *)
(*                                                                         *)
(* State: the module-level registry __FETCH_RESULTS__; for every call of   *)
(* fmFetch the closure it creates (its Config, AddonUUID and param, the    *)
(* promise, the polling interval, the timeout timer and its timeOut flag); *)
(* window.FileMaker, window.__initialProps__ and window.loadInitialProps;  *)
(* the closure of init.                                                    *)
(*                                                                         *)
(* Spec is the bridge at work in a booted page: fmFetch, the global        *)
(* callback window.Fmw_Callback, the interval callback, the timeout        *)
(* callback, and the passing of time.  BootSpec is the page from its       *)
(* start: init, window.loadInitialProps, the arrival of window.FileMaker,  *)
(* and fmFetch, fmCallScript and getConfig called around them.             *)
(*                                                                         *)
(* JavaScript values are records [t |-> type, v |-> content]; a string's   *)
(* content is its sequence of characters, so that JSON.parse and           *)
(* JSON.stringify are computed on the text and the "started" marker is an  *)
(* ordinary string value.                                                  *)
(***************************************************************************)
EXTENDS Integers, Sequences, FiniteSets, TLC

\* ------------------------------------------------------------------ bounds
MaxCalls == 2       \* calls of fmFetch in one run
MaxDispatch == 2    \* invocations of the callback in one run
MaxTime == 250      \* the clock stops here (ms)

\* ------------------------------------------------------- program constants
PollMs == 100           \* the interval of setInterval in fmFetch
DefaultTimeOut == 30000 \* the default options of fmFetch
Step == PollMs \div 2   \* granularity of the clock

\* --------------------------------------------------------- JavaScript values
Undefined == [t |-> "undefined", v |-> <<>>]
JsNull == [t |-> "null", v |-> <<>>]
JsBool(b) == [t |-> "boolean", v |-> <<b>>]
JsNumber(n) == [t |-> "number", v |-> <<n>>]
JsString(cs) == [t |-> "string", v |-> cs]
JsArray(elems) == [t |-> "array", v |-> elems]
JsObject(members) == [t |-> "object", v |-> members]
JsError(cs) == [t |-> "error", v |-> cs]

\* a === b on the values above (objects compared by content: every object
\* here comes from one JSON.parse and is never aliased)
StrictEq(a, b) == a.t = b.t /\ a.v = b.v

\* the marker "started"
STARTED == JsString(<<"s", "t", "a", "r", "t", "e", "d">>)

\* new Error("timeout")
TimeoutError == JsError(<<"t", "i", "m", "e", "o", "u", "t">>)

\* the TypeError of reading a property of undefined
TypeError == JsError(<<"T", "y", "p", "e", "E", "r", "r", "o", "r">>)

\* const CALLBACK = "Fmw_Callback"
CALLBACK == <<"F", "m", "w", "_", "C", "a", "l", "l", "b", "a", "c", "k">>

\* the text "__PROPS__" that init leaves in window.__initialProps__
PROPS == JsString(<<"_", "_", "P", "R", "O", "P", "S", "_", "_">>)

\* property names
KeyData == <<"D", "a", "t", "a">>
KeyMeta == <<"M", "e", "t", "a">>
KeyConfig == <<"C", "o", "n", "f", "i", "g">>
KeyAddonUUID == <<"A", "d", "d", "o", "n", "U", "U", "I", "D">>
KeyFetchId == <<"F", "e", "t", "c", "h", "I", "d">>
KeyCallback == <<"C", "a", "l", "l", "b", "a", "c", "k">>
KeyEventType == <<"E", "v", "e", "n", "t", "T", "y", "p", "e">>
KeyValue == <<"v", "a", "l", "u", "e">>
KeyWebDirectRefresh ==
    <<"w", "e", "b", "D", "i", "r", "e", "c", "t", "R", "e", "f", "r", "e", "s", "h">>

\* ----------------------------------------------------------------- JSON.parse
Digits == {"0", "1", "2", "3", "4", "5", "6", "7", "8", "9"}

DigitVal(c) ==
    CASE c = "0" -> 0 [] c = "1" -> 1 [] c = "2" -> 2 [] c = "3" -> 3
      [] c = "4" -> 4 [] c = "5" -> 5 [] c = "6" -> 6 [] c = "7" -> 7
      [] c = "8" -> 8 [] c = "9" -> 9

Fail == [ok |-> FALSE, val |-> Undefined, rest |-> <<>>]
Ok(val, rest) == [ok |-> TRUE, val |-> val, rest |-> rest]

RECURSIVE SkipWs(_)
SkipWs(s) == IF s # <<>> /\ Head(s) = " " THEN SkipWs(Tail(s)) ELSE s

\* s starts with the characters of lit
StartsWith(s, lit) == Len(s) >= Len(lit) /\ SubSeq(s, 1, Len(lit)) = lit
Drop(s, n) == SubSeq(s, n + 1, Len(s))

\* the characters of a string literal up to its closing quote (no escapes:
\* a backslash or a missing quote is a syntax error)
RECURSIVE ParseChars(_, _)
ParseChars(s, acc) ==
    IF s = <<>> \/ Head(s) = "\\" THEN Fail
    ELSE IF Head(s) = "\"" THEN Ok(JsString(acc), Tail(s))
    ELSE ParseChars(Tail(s), Append(acc, Head(s)))

\* an integer without sign, fraction or exponent; no leading zero
RECURSIVE ParseDigits(_, _)
ParseDigits(s, n) ==
    IF s # <<>> /\ Head(s) \in Digits
    THEN ParseDigits(Tail(s), 10 * n + DigitVal(Head(s)))
    ELSE Ok(JsNumber(n), s)

ParseNumber(s) ==
    IF Head(s) = "0" THEN Ok(JsNumber(0), Tail(s)) ELSE ParseDigits(s, 0)

RECURSIVE ParseValue(_)
RECURSIVE ParseElements(_, _)
RECURSIVE ParseMembers(_, _)

\* the elements of an array after "[" or ","
ParseElements(s, acc) ==
    LET e == ParseValue(s)
        r == SkipWs(e.rest)
    IN  IF ~e.ok \/ r = <<>> THEN Fail
        ELSE IF Head(r) = "]" THEN Ok(JsArray(Append(acc, e.val)), Tail(r))
        ELSE IF Head(r) = "," THEN ParseElements(Tail(r), Append(acc, e.val))
        ELSE Fail

\* the members of an object after "{" or ","
ParseMembers(s, acc) ==
    LET s1 == SkipWs(s)
        k == IF s1 # <<>> /\ Head(s1) = "\"" THEN ParseChars(Tail(s1), <<>>) ELSE Fail
        s2 == SkipWs(k.rest)
        e == IF k.ok /\ s2 # <<>> /\ Head(s2) = ":" THEN ParseValue(Tail(s2)) ELSE Fail
        r == SkipWs(e.rest)
        m == [k |-> k.val.v, val |-> e.val]
    IN  IF ~e.ok \/ r = <<>> THEN Fail
        ELSE IF Head(r) = "}" THEN Ok(JsObject(Append(acc, m)), Tail(r))
        ELSE IF Head(r) = "," THEN ParseMembers(Tail(r), Append(acc, m))
        ELSE Fail

ParseValue(s0) ==
    LET s == SkipWs(s0)
    IN  IF s = <<>> THEN Fail
        ELSE IF StartsWith(s, <<"t", "r", "u", "e">>) THEN Ok(JsBool(TRUE), Drop(s, 4))
        ELSE IF StartsWith(s, <<"f", "a", "l", "s", "e">>) THEN Ok(JsBool(FALSE), Drop(s, 5))
        ELSE IF StartsWith(s, <<"n", "u", "l", "l">>) THEN Ok(JsNull, Drop(s, 4))
        ELSE IF Head(s) \in Digits THEN ParseNumber(s)
        ELSE IF Head(s) = "\"" THEN ParseChars(Tail(s), <<>>)
        ELSE IF Head(s) = "[" THEN
            (IF SkipWs(Tail(s)) # <<>> /\ Head(SkipWs(Tail(s))) = "]"
             THEN Ok(JsArray(<<>>), Tail(SkipWs(Tail(s))))
             ELSE ParseElements(Tail(s), <<>>))
        ELSE IF Head(s) = "{" THEN
            (IF SkipWs(Tail(s)) # <<>> /\ Head(SkipWs(Tail(s))) = "}"
             THEN Ok(JsObject(<<>>), Tail(SkipWs(Tail(s))))
             ELSE ParseMembers(Tail(s), <<>>))
        ELSE Fail

\* JSON.parse(text): the value, or a SyntaxError (ok = FALSE) when the text is
\* not one JSON value followed by nothing but whitespace
JSONparse(text) ==
    LET p == ParseValue(text)
    IN  IF p.ok /\ SkipWs(p.rest) = <<>> THEN p ELSE Fail

\* try { results = JSON.parse(results) } catch (e) {}
ParseOrKeep(results) ==
    LET p == JSONparse(results)
    IN  IF p.ok THEN p.val ELSE JsString(results)

\* -------------------------------------------------------- objects, stringify
\* obj[key] of a JavaScript value: the member's value, or undefined (a string
\* has none of the keys used here); the caller rules out undefined and null
GetMember(obj, key) ==
    IF obj.t = "object" /\ \E i \in 1 .. Len(obj.v) : obj.v[i].k = key
    THEN obj.v[CHOOSE i \in 1 .. Len(obj.v) :
                  obj.v[i].k = key /\ \A j \in i + 1 .. Len(obj.v) : obj.v[j].k # key].val
    ELSE Undefined

\* obj[key] = val on an object
SetMember(obj, key, val) ==
    IF \E i \in 1 .. Len(obj.v) : obj.v[i].k = key
    THEN JsObject([i \in 1 .. Len(obj.v) |->
                      IF obj.v[i].k = key THEN [k |-> key, val |-> val] ELSE obj.v[i]])
    ELSE JsObject(Append(obj.v, [k |-> key, val |-> val]))

\* if (value): false for undefined, null, false, 0 and ""
Truthy(value) ==
    CASE value.t \in {"undefined", "null"} -> FALSE
      [] value.t = "boolean" -> value.v[1]
      [] value.t = "number" -> value.v[1] # 0
      [] value.t = "string" -> value.v # <<>>
      [] OTHER -> TRUE

DigitChar(d) ==
    CASE d = 0 -> "0" [] d = 1 -> "1" [] d = 2 -> "2" [] d = 3 -> "3" [] d = 4 -> "4"
      [] d = 5 -> "5" [] d = 6 -> "6" [] d = 7 -> "7" [] d = 8 -> "8" [] d = 9 -> "9"

RECURSIVE NumChars(_)
NumChars(n) == IF n < 10 THEN <<DigitChar(n)>> ELSE Append(NumChars(n \div 10), DigitChar(n % 10))

Quoted(cs) == <<"\"">> \o cs \o <<"\"">>

\* JSON.stringify(value) for the values above (strings here hold no quote and
\* no backslash; numbers are natural numbers): a member whose value is
\* undefined is left out, an undefined array element is written null
RECURSIVE Stringify(_)
RECURSIVE StringifyElements(_, _)
RECURSIVE StringifyMembers(_, _)

StringifyElements(elems, first) ==
    IF elems = <<>> THEN <<>>
    ELSE (IF first THEN <<>> ELSE <<",">>)
         \o (IF Head(elems).t = "undefined" THEN <<"n", "u", "l", "l">> ELSE Stringify(Head(elems)))
         \o StringifyElements(Tail(elems), FALSE)

StringifyMembers(members, first) ==
    IF members = <<>> THEN <<>>
    ELSE IF Head(members).val.t = "undefined" THEN StringifyMembers(Tail(members), first)
    ELSE (IF first THEN <<>> ELSE <<",">>)
         \o Quoted(Head(members).k) \o <<":">> \o Stringify(Head(members).val)
         \o StringifyMembers(Tail(members), FALSE)

Stringify(value) ==
    CASE value.t = "string" -> Quoted(value.v)
      [] value.t = "number" -> NumChars(value.v[1])
      [] value.t = "boolean" ->
            IF value.v[1] THEN <<"t", "r", "u", "e">> ELSE <<"f", "a", "l", "s", "e">>
      [] value.t = "null" -> <<"n", "u", "l", "l">>
      [] value.t = "array" -> <<"[">> \o StringifyElements(value.v, TRUE) \o <<"]">>
      [] value.t = "object" -> <<"{">> \o StringifyMembers(value.v, TRUE) \o <<"}">>

\* ------------------------------------------------ result strings of the host
RawObject == <<"{", "\"", "o", "k", "\"", ":", "t", "r", "u", "e", "}">>
RawQuotedStarted == <<"\"", "s", "t", "a", "r", "t", "e", "d", "\"">>
RawStarted == <<"s", "t", "a", "r", "t", "e", "d">>
RawGarbage == <<"{", "o", "k">>
RawResults == {RawObject, RawQuotedStarted, RawStarted, RawGarbage}

\* ------------------------------------------------------------------- state
VARIABLES
    FETCH_RESULTS,  \* __FETCH_RESULTS__: identifier -> "started" or the result
    calls,          \* identifier -> the closure of that call of fmFetch
    now,            \* the clock (ms)
    delivered,      \* identifier -> the invocations of the callback so far
    window,         \* window.FileMaker, .__initialProps__, .loadInitialProps
    boot,           \* the closure of init, and the invocations of booter
    ret             \* how the last call of the exported functions ended

vars == <<FETCH_RESULTS, calls, now, delivered, window, boot, ret>>

\* the identifiers v4() can return, and one the host makes up
FetchIds == 1 .. MaxCalls
UnknownId == 0

\* the identifier as the string the envelope and the callback carry
IdString(fetchId) == JsString(NumChars(fetchId))

\* the options argument of fmFetch: left out, or an object whose timeOut is
\* a number or is missing (for example {eventType: "x"}); a key the object
\* does not have reads undefined
OptionsOmitted ==
    [omitted |-> TRUE, timeOut |-> Undefined, eventType |-> Undefined, Meta |-> Undefined]
OptionsObject(timeOut) ==
    [omitted |-> FALSE, timeOut |-> timeOut, eventType |-> Undefined, Meta |-> Undefined]
WithEventType(options, eventType) == [options EXCEPT !.eventType = eventType]
WithMeta(options, meta) == [options EXCEPT !.Meta = meta]

\* an explicit timeOut longer than one polling interval
LongTimeOut == PollMs + Step

\* {eventType: "x"}, {timeOut: 150, Meta: {AddonUUID: "m"}}, and
\* {timeOut: 150, eventType: ""}
EventOptions == WithEventType(OptionsObject(Undefined), JsString(<<"x">>))
CallerMeta == JsObject(<<[k |-> KeyAddonUUID, val |-> JsString(<<"m">>)]>>)
MetaOptions == WithMeta(OptionsObject(JsNumber(LongTimeOut)), CallerMeta)
EmptyEventOptions == WithEventType(OptionsObject(JsNumber(LongTimeOut)), JsString(<<>>))

OptionsArgs == {OptionsOmitted, EventOptions, MetaOptions}

\* the script and the data arguments: data left out, or {"n": 1}
Script == <<"s">>
SomeData == JsObject(<<[k |-> <<"n">>, val |-> JsNumber(1)]>>)
DataFor(optionsArg) == IF optionsArg.omitted THEN Undefined ELSE SomeData

\* options = { timeOut: 30000 } applies only when the argument is left out
DefaultOptions(arg) ==
    IF arg.omitted
    THEN [timeOut |-> JsNumber(DefaultTimeOut), eventType |-> Undefined, Meta |-> Undefined]
    ELSE [timeOut |-> arg.timeOut, eventType |-> arg.eventType, Meta |-> arg.Meta]

\* data = {} applies when the argument is undefined
DefaultData(data) == IF data.t = "undefined" THEN JsObject(<<>>) ELSE data

\* a timer that does not wait
TimerDelayNone(timeOut) == 0

\* the delay setTimeout uses: a delay that is not a number counts as 0
TimerDelay(timeOut) ==
    IF timeOut.t = "number" /\ timeOut.v[1] > 0 THEN timeOut.v[1] ELSE 0

\* obj[key], obj[key] = value, delete obj[key]
Get(obj, key) == IF key \in DOMAIN obj THEN obj[key] ELSE Undefined
Put(obj, key, value) ==
    [k \in DOMAIN obj \cup {key} |-> IF k = key THEN value ELSE obj[k]]
Delete(obj, key) == [k \in DOMAIN obj \ {key} |-> obj[k]]

\* a generator that returns the same identifier every time
v4Repeating(used) == CHOOSE id \in FetchIds : \A other \in FetchIds : id <= other

\* v4(): an identifier no earlier call got
v4(used) == CHOOSE id \in FetchIds \ used : \A other \in FetchIds \ used : id <= other

\* a promise settles once: resolve and reject do nothing to a settled one
\* (settles counts the times its state was set)
PendingPromise == [state |-> "pending", value |-> Undefined, settles |-> 0]

Resolve(promise, value) ==
    IF promise.state = "pending"
    THEN [state |-> "fulfilled", value |-> value, settles |-> promise.settles + 1]
    ELSE promise

\* a reject that overrides an earlier settlement
RejectOverriding(promise, reason) ==
    [state |-> "rejected", value |-> reason, settles |-> promise.settles + 1]

Reject(promise, reason) ==
    IF promise.state = "pending"
    THEN [state |-> "rejected", value |-> reason, settles |-> promise.settles + 1]
    ELSE promise

\* the calls whose promise is not settled
Outstanding == {id \in DOMAIN calls : calls[id].promise.state = "pending"}

\* ------------------------------------------------------- initial properties
\* the properties FileMaker loads: {"Config": {"Table": {"value": "T"}},
\* "AddonUUID": "abc"}, as the text it passes to window.loadInitialProps
KeyTable == <<"T", "a", "b", "l", "e">>
KeyNone == <<"N", "o", "n", "e">>
PropsObject ==
    JsObject(<< [k |-> KeyConfig, val |-> JsObject(<<
                    [k |-> KeyTable, val |-> JsObject(<<
                        [k |-> KeyValue, val |-> JsString(<<"T">>)] >>)] >>)],
                [k |-> KeyAddonUUID, val |-> JsString(<<"a", "b", "c">>)] >>)
RawProps == Stringify(PropsObject)

\* webDirectRefresh = "false"
DefaultWebDirectRefresh == JsString(<<"f", "a", "l", "s", "e">>)

\* getInitialProps(): window.__initialProps__ || {}
getInitialProps(win) ==
    IF Truthy(win.initialProps) THEN win.initialProps ELSE JsObject(<<>>)

getAddonUUID(win) == GetMember(getInitialProps(win), KeyAddonUUID)
getConfigs(win) == GetMember(getInitialProps(win), KeyConfig)

\* how a call of an exported function ended: the value it returned or the
\* error it threw, and the text it passed to FileMaker.PerformScript
NoCall ==
    [op |-> "none", fetchId |-> 0, threw |-> FALSE, value |-> Undefined,
     script |-> <<>>, param |-> <<>>]
Returned(op, fetchId, value) ==
    [op |-> op, fetchId |-> fetchId, threw |-> FALSE, value |-> value,
     script |-> <<>>, param |-> <<>>]
Performed(op, fetchId, script, param) ==
    [op |-> op, fetchId |-> fetchId, threw |-> FALSE, value |-> Undefined,
     script |-> script, param |-> param]
Threw(op, fetchId, error) ==
    [op |-> op, fetchId |-> fetchId, threw |-> TRUE, value |-> error,
     script |-> <<>>, param |-> <<>>]

\* the page before init: no FileMaker object, no initial properties
InitUnbooted ==
    /\ FETCH_RESULTS = <<>>
    /\ calls = <<>>
    /\ now = 0
    /\ delivered = [id \in FetchIds \cup {UnknownId} |-> <<>>]
    /\ window = [FileMaker |-> FALSE, initialProps |-> Undefined, loadInitialProps |-> FALSE]
    /\ boot = [called |-> FALSE, checkFM |-> FALSE, defaults |-> JsNull,
               webDirectRefresh |-> Undefined, booted |-> <<>>]
    /\ ret = NoCall

\* the page once FileMaker is there and has loaded the initial properties
\* into a widget that called init(booter)
BootedProps == SetMember(PropsObject, KeyWebDirectRefresh, DefaultWebDirectRefresh)

Init ==
    /\ FETCH_RESULTS = <<>>
    /\ calls = <<>>
    /\ now = 0
    /\ delivered = [id \in FetchIds \cup {UnknownId} |-> <<>>]
    /\ window = [FileMaker |-> TRUE, initialProps |-> BootedProps, loadInitialProps |-> TRUE]
    /\ boot = [called |-> TRUE, checkFM |-> FALSE, defaults |-> JsNull,
               webDirectRefresh |-> DefaultWebDirectRefresh,
               booted |-> <<[props |-> BootedProps, FileMaker |-> TRUE]>>]
    /\ ret = NoCall

\* ----------------------------------------------------- window.Fmw_Callback
\* the outstanding calls an invocation with fetchId could concern: that call,
\* or every call when fmFetch never issued fetchId
Concerned(fetchId) ==
    IF fetchId \in DOMAIN calls THEN Outstanding \cap {fetchId} ELSE Outstanding

\* a callback that stores the result whatever the entry holds
CallbackStoreUnguarded(registry, results, fetchId) ==
    Put(registry, fetchId, ParseOrKeep(results))

\* a callback that stores the result in every entry that holds the marker
CallbackStoreBroadcast(registry, results, fetchId) ==
    [k \in DOMAIN registry |->
        IF StrictEq(registry[k], STARTED) THEN ParseOrKeep(results) ELSE registry[k]]

\* what the callback leaves in the registry for fetchId
CallbackStore(registry, results, fetchId) ==
    LET x == Get(registry, fetchId)
    IN  IF StrictEq(x, STARTED)
        THEN Put(registry, fetchId, ParseOrKeep(results))
        ELSE registry

\* the invocations of the callback so far, over all identifiers
RECURSIVE Invocations(_)
Invocations(ids) ==
    IF ids = {} THEN 0
    ELSE LET id == CHOOSE i \in ids : TRUE
         IN  Len(delivered[id]) + Invocations(ids \ {id})

Callback(results, fetchId) ==
    /\ Invocations(DOMAIN delivered) < MaxDispatch
    /\ FETCH_RESULTS' = CallbackStore(FETCH_RESULTS, results, fetchId)
    /\ delivered' = [delivered EXCEPT ![fetchId] = Append(@,
          [ results |-> results,
            timeOut |-> fetchId \in DOMAIN calls /\ calls[fetchId].timeOut,
            outstanding |-> Concerned(fetchId),
            sync |-> FALSE ])]
    /\ UNCHANGED <<calls, now, window, boot, ret>>

\* ------------------------------------------------------------------ fmFetch
\* the identifiers fmFetch has generated so far: those of the promises it
\* returned and those it left in the registry
Issued == DOMAIN calls \cup DOMAIN FETCH_RESULTS

\* a param object that gets its EventType whatever options.eventType is
FetchParamAnyEventType(data, options, fetchId, Config, AddonUUID) ==
    JsObject(<< [k |-> KeyData, val |-> data],
                [k |-> KeyMeta, val |-> JsObject(<<
                    [k |-> KeyConfig, val |-> Config],
                    [k |-> KeyAddonUUID, val |-> AddonUUID],
                    [k |-> KeyFetchId, val |-> IdString(fetchId)],
                    [k |-> KeyCallback, val |-> JsString(CALLBACK)],
                    [k |-> KeyEventType, val |-> options.eventType] >>)] >>)

\* the param object of fmFetch, before JSON.stringify
FetchParam(data, options, fetchId, Config, AddonUUID) ==
    LET meta == JsObject(<< [k |-> KeyConfig, val |-> Config],
                            [k |-> KeyAddonUUID, val |-> AddonUUID],
                            [k |-> KeyFetchId, val |-> IdString(fetchId)],
                            [k |-> KeyCallback, val |-> JsString(CALLBACK)] >>)
    IN  JsObject(<< [k |-> KeyData, val |-> data],
                    [k |-> KeyMeta, val |->
                        IF Truthy(options.eventType)
                        THEN SetMember(meta, KeyEventType, options.eventType)
                        ELSE meta] >>)

\* what FileMaker.PerformScript may do before it returns: nothing, or one
\* invocation of the callback with the identifier it was just given
HostReplies == {<<>>} \cup {<<results>> : results \in RawResults}

\* fmFetch(script, data, options): registers the identifier, hands the request
\* to the host, and returns a promise with its interval and its timer; without
\* window.FileMaker the call of PerformScript throws a TypeError
fmFetch(script, data, optionsArg) ==
    /\ FetchIds \ Issued # {}
    /\ LET fetchId == v4(Issued)
           options == DefaultOptions(optionsArg)
           registered == Put(FETCH_RESULTS, fetchId, STARTED)
           Config == getConfigs(window)
           AddonUUID == getAddonUUID(window)
           param == Stringify(FetchParam(DefaultData(data), options, fetchId, Config, AddonUUID))
       IN  IF ~window.FileMaker
           THEN /\ FETCH_RESULTS' = registered
                /\ ret' = Threw("fmFetch", fetchId, TypeError)
                /\ UNCHANGED <<calls, delivered>>
           ELSE \E reply \in HostReplies :
                /\ reply # <<>> => Invocations(DOMAIN delivered) < MaxDispatch
                /\ FETCH_RESULTS' =
                      IF reply = <<>> THEN registered
                      ELSE CallbackStore(registered, reply[1], fetchId)
                /\ delivered' =
                      IF reply = <<>> THEN delivered
                      ELSE [delivered EXCEPT ![fetchId] = Append(@,
                              [ results |-> reply[1],
                                timeOut |-> FALSE,
                                outstanding |-> {fetchId},
                                sync |-> TRUE ])]
                /\ calls' = Put(calls, fetchId,
                      [ promise   |-> PendingPromise,
                        int       |-> TRUE,
                        nextTick  |-> now + PollMs,
                        timer     |-> TRUE,
                        timerDue  |-> now + TimerDelay(options.timeOut),
                        timeOut   |-> FALSE,
                        options   |-> optionsArg,
                        issuedAt  |-> now,
                        Config    |-> Config,
                        AddonUUID |-> AddonUUID,
                        param     |-> param ])
                /\ ret' = Performed("fmFetch", fetchId, script, param)
    /\ UNCHANGED <<now, window, boot>>

\* ------------------------------------------------- the interval of fmFetch
\* an interval callback that looks at the timeOut flag before the result
TickSettleTimeoutFirst(promise, result, timeOut) ==
    LET afterTimeout == IF timeOut THEN Reject(promise, TimeoutError) ELSE promise
    IN  IF ~StrictEq(result, STARTED) THEN Resolve(afterTimeout, result) ELSE afterTimeout

\* the promise after one run of the interval callback
TickSettle(promise, result, timeOut) ==
    LET afterResult == IF ~StrictEq(result, STARTED) THEN Resolve(promise, result) ELSE promise
    IN  IF timeOut THEN Reject(afterResult, TimeoutError) ELSE afterResult

\* an interval callback that cleans up only when it has seen a result
TickStopsOnResult(result, timeOut) == ~StrictEq(result, STARTED)

\* whether that run clears the interval and deletes the entry
TickStops(result, timeOut) == ~StrictEq(result, STARTED) \/ timeOut

IntervalTick(fetchId) ==
    /\ fetchId \in DOMAIN calls
    /\ calls[fetchId].int
    /\ calls[fetchId].nextTick <= now
    /\ LET c == calls[fetchId]
           result == Get(FETCH_RESULTS, fetchId)
           stops == TickStops(result, c.timeOut)
       IN  /\ FETCH_RESULTS' = IF stops THEN Delete(FETCH_RESULTS, fetchId) ELSE FETCH_RESULTS
           /\ calls' = [calls EXCEPT ![fetchId] =
                  [c EXCEPT !.promise = TickSettle(c.promise, result, c.timeOut),
                            !.int = ~stops,
                            !.nextTick = c.nextTick + PollMs]]
    /\ UNCHANGED <<now, delivered, window, boot, ret>>

\* ---------------------------------------------------- the timer of fmFetch
TimeoutFire(fetchId) ==
    /\ fetchId \in DOMAIN calls
    /\ calls[fetchId].timer
    /\ calls[fetchId].timerDue <= now
    /\ calls' = [calls EXCEPT ![fetchId].timeOut = TRUE, ![fetchId].timer = FALSE]
    /\ UNCHANGED <<FETCH_RESULTS, now, delivered, window, boot, ret>>

\* -------------------------------------------------------------------- time
\* a timer callback that is due runs before the clock moves on
TimerDue ==
    \E id \in DOMAIN calls :
        \/ calls[id].int /\ calls[id].nextTick <= now
        \/ calls[id].timer /\ calls[id].timerDue <= now

Advance ==
    /\ ~TimerDue
    /\ now + Step <= MaxTime
    /\ now' = now + Step
    /\ UNCHANGED <<FETCH_RESULTS, calls, delivered, window, boot, ret>>

Next ==
    \/ \E optionsArg \in OptionsArgs : fmFetch(Script, DataFor(optionsArg), optionsArg)
    \/ \E results \in RawResults, fetchId \in DOMAIN calls \cup {UnknownId} :
          Callback(results, fetchId)
    \/ \E fetchId \in FetchIds : IntervalTick(fetchId)
    \/ \E fetchId \in FetchIds : TimeoutFire(fetchId)
    \/ Advance

Spec == Init /\ [][Next]_vars

\* --------------------------------------------------------------------- init
MaxBoot == 1        \* invocations of booter after which FileMaker loads no more properties

\* FileMaker puts its object into the page
LoadFileMaker ==
    /\ ~window.FileMaker
    /\ window' = [window EXCEPT !.FileMaker = TRUE]
    /\ UNCHANGED <<FETCH_RESULTS, calls, now, delivered, boot, ret>>

\* the optionalDefaultProps a widget passes: {"AddonUUID": "d"}
DefaultProps == JsObject(<<[k |-> KeyAddonUUID, val |-> JsString(<<"d">>)]>>)

\* init(booter, optionalDefaultProps, webDirectRefresh): window.__initialProps__
\* is the text "__PROPS__" when it is compared with "__PROPS__", so init
\* installs window.loadInitialProps; with default props it also starts the
\* interval that waits for window.FileMaker
init(optionalDefaultProps, webDirectRefresh) ==
    /\ ~boot.called
    /\ LET initialProps == PROPS
           merged == ~StrictEq(initialProps, PROPS)
       IN  /\ window' = [window EXCEPT !.initialProps = initialProps,
                                       !.loadInitialProps = ~merged]
           /\ boot' = [ called |-> TRUE,
                        checkFM |-> Truthy(optionalDefaultProps),
                        defaults |-> optionalDefaultProps,
                        webDirectRefresh |-> webDirectRefresh,
                        booted |-> <<>> ]
    /\ UNCHANGED <<FETCH_RESULTS, calls, now, delivered, ret>>

\* booter(props), and whether window.FileMaker was there
Boot(props) == Append(boot.booted, [props |-> props, FileMaker |-> window.FileMaker])

\* the callback of checkFMInterval (the clock of the calls is left alone)
CheckFM ==
    /\ boot.checkFM
    /\ boot' = IF window.FileMaker
               THEN [boot EXCEPT !.checkFM = FALSE, !.booted = Boot(boot.defaults)]
               ELSE boot
    /\ UNCHANGED <<FETCH_RESULTS, calls, now, delivered, window, ret>>

\* window.loadInitialProps(props), called by a FileMaker script
loadInitialProps(text) ==
    /\ window.loadInitialProps
    /\ Len(boot.booted) < MaxBoot
    /\ LET parsed == JSONparse(text)
           props == IF parsed.ok THEN parsed.val ELSE JsObject(<<>>)
       IN  IF props.t = "object"
           THEN LET loaded == SetMember(props, KeyWebDirectRefresh, boot.webDirectRefresh)
                IN  /\ window' = [window EXCEPT !.initialProps = loaded]
                    /\ boot' = [boot EXCEPT !.booted = Boot(loaded)]
                    /\ ret' = ret
           ELSE /\ ret' = Threw("loadInitialProps", 0, TypeError)
                /\ UNCHANGED <<window, boot>>
    /\ UNCHANGED <<FETCH_RESULTS, calls, now, delivered>>

\* ---------------------------------------------------------------- getConfig
\* new Error(`there is no config with the key: ${key}`)
MissingConfig(key) ==
    JsError(<<"t", "h", "e", "r", "e", " ", "i", "s", " ", "n", "o", " ", "c", "o", "n", "f", "i", "g", " ", "w", "i", "t", "h", " ", "t", "h", "e", " ", "k", "e", "y", ":", " ">> \o key)

\* getConfig(key): config[key] of an undefined config throws a TypeError
getConfig(key) ==
    /\ LET config == getConfigs(window)
           entry == GetMember(config, key)
       IN  ret' = IF config.t \in {"undefined", "null"} THEN Threw("getConfig", 0, TypeError)
                  ELSE IF Truthy(entry)
                       THEN Returned("getConfig", 0, GetMember(entry, KeyValue))
                       ELSE Threw("getConfig", 0, MissingConfig(key))
    /\ UNCHANGED <<FETCH_RESULTS, calls, now, delivered, window, boot>>

\* ------------------------------------------------------------- fmCallScript
\* the param object of fmCallScript, before JSON.stringify
CallParam(data, options, win) ==
    LET props == getInitialProps(win)
        meta == IF Truthy(options.Meta) THEN options.Meta
                ELSE JsObject(<< [k |-> KeyConfig, val |-> GetMember(props, KeyConfig)],
                                 [k |-> KeyAddonUUID, val |-> GetMember(props, KeyAddonUUID)] >>)
    IN  JsObject(<< [k |-> KeyData, val |-> data],
                    [k |-> KeyMeta, val |->
                        IF Truthy(options.eventType)
                        THEN SetMember(meta, KeyEventType, options.eventType)
                        ELSE meta] >>)

\* fmCallScript(script, data, options): options = {} when left out
fmCallScript(script, data, optionsArg) ==
    /\ ret' = IF window.FileMaker
              THEN Performed("fmCallScript", 0, script,
                             Stringify(CallParam(DefaultData(data), optionsArg, window)))
              ELSE Threw("fmCallScript", 0, TypeError)
    /\ UNCHANGED <<FETCH_RESULTS, calls, now, delivered, window, boot>>

\* -------------------------------------------- booting and the called functions
\* the page from its start: FileMaker's object arrives, the widget calls
\* init, FileMaker loads the properties, and the exported functions are called
\* in any order around that.  The clock stands still here; what the interval
\* and the timer of fmFetch do as time passes is Spec's.
ConfigKeys == {KeyTable, KeyNone}
BootOptionsArgs == OptionsArgs \cup {EmptyEventOptions}

BootNext ==
    \/ LoadFileMaker
    \/ \E optionalDefaultProps \in {JsNull, DefaultProps} :
          init(optionalDefaultProps, DefaultWebDirectRefresh)
    \/ CheckFM
    \/ \E text \in {RawProps, RawGarbage} : loadInitialProps(text)
    \/ \E key \in ConfigKeys : getConfig(key)
    \/ \E optionsArg \in BootOptionsArgs : fmCallScript(Script, DataFor(optionsArg), optionsArg)
    \/ \E optionsArg \in BootOptionsArgs : fmFetch(Script, DataFor(optionsArg), optionsArg)

BootSpec == InitUnbooted /\ [][BootNext]_vars

\* ------------------------------------------------------------ properties
FirstDelivery(id) == delivered[id][1]
LastDelivery(id) == delivered[id][Len(delivered[id])]

\* the first result for id came while its promise was pending and before its
\* timeOut flag was set
DeliveredInTime(id) ==
    /\ delivered[id] # <<>>
    /\ id \in FirstDelivery(id).outstanding
    /\ ~FirstDelivery(id).timeOut

\* the timeout the documentation promises for an options argument
DocumentedTimeOut(arg) ==
    IF ~arg.omitted /\ arg.timeOut.t = "number" THEN arg.timeOut.v[1] ELSE DefaultTimeOut

Fulfilled(id) == calls[id].promise.state = "fulfilled"
Rejected(id) == calls[id].promise.state = "rejected"

\* C1: at-most-once resolution.  Once a result has been delivered for a call,
\* a further invocation of the callback with its identifier leaves the
\* registry as it is, and the promise is fulfilled with nothing but the first
\* delivered result (parsed, or raw when it does not parse).
C1_FirstDispatchWins ==
    [][\A id \in DOMAIN calls :
          delivered[id] # <<>> =>
            /\ \A results \in RawResults :
                  Callback(results, id) => FETCH_RESULTS' = FETCH_RESULTS
            /\ calls'[id].promise.state = "fulfilled" =>
                  StrictEq(calls'[id].promise.value,
                           ParseOrKeep(FirstDelivery(id).results))]_vars

\* C2: malformed payload fallback.  A call whose first result does not parse
\* as JSON, delivered while the call was pending and before its timeout, ends
\* fulfilled with that raw string: once settled, it is never rejected and its
\* value is the string unchanged.
C2_MalformedFallback ==
    \A id \in DOMAIN calls :
        ( /\ DeliveredInTime(id)
          /\ ~JSONparse(FirstDelivery(id).results).ok
          /\ calls[id].promise.state # "pending" )
        => /\ Fulfilled(id)
           /\ StrictEq(calls[id].promise.value, JsString(FirstDelivery(id).results))

\* C3: timeout cleanup.  A call that never gets a result is rejected with the
\* timeout error no earlier than its timeout after it was issued and no later
\* than one polling interval after that; it is never fulfilled, and once it is
\* rejected the registry has no entry for it.
C3_TimeoutCleanup ==
    \A id \in DOMAIN calls :
        delivered[id] = <<>> =>
            LET deadline == calls[id].issuedAt + DocumentedTimeOut(calls[id].options)
            IN  /\ ~Fulfilled(id)
                /\ Rejected(id) =>
                     /\ now >= deadline
                     /\ StrictEq(calls[id].promise.value, TimeoutError)
                     /\ id \notin DOMAIN FETCH_RESULTS
                /\ now > deadline + PollMs => Rejected(id)

\* C4: success path.  When a result was delivered for a pending call before
\* its timeOut flag was set, the next run of the interval callback clears the
\* interval, deletes the entry and fulfils the promise with exactly that
\* result (parsed, or raw when it does not parse).
C4_SuccessPath ==
    [][\A id \in DOMAIN calls :
          ( /\ IntervalTick(id)
            /\ DeliveredInTime(id)
            /\ calls[id].promise.state = "pending" )
          => /\ calls'[id].promise.state = "fulfilled"
             /\ StrictEq(calls'[id].promise.value,
                         ParseOrKeep(FirstDelivery(id).results))
             /\ ~calls'[id].int
             /\ id \notin DOMAIN FETCH_RESULTS']_vars

\* C5: late dispatch after cleanup.  Once the entry of a call has been
\* deleted, no later step (a late invocation of the callback included) brings
\* an entry for that identifier back or changes the state or value of its
\* promise.
C5_LateDispatchIgnored ==
    [][\A id \in DOMAIN calls :
          id \notin DOMAIN FETCH_RESULTS =>
            /\ id \notin DOMAIN FETCH_RESULTS'
            /\ calls'[id].promise = calls[id].promise
            /\ \A results \in RawResults :
                  Callback(results, id) => FETCH_RESULTS' = FETCH_RESULTS]_vars

\* C5 witness: the callback was invoked for a call after its timeout had
\* rejected it and deleted its entry.
C5_Witness ==
    \E id \in DOMAIN calls :
        /\ Rejected(id)
        /\ delivered[id] # <<>>
        /\ id \notin LastDelivery(id).outstanding
        /\ id \notin DOMAIN FETCH_RESULTS

C7_DefaultTimeOutApplies ==
    \A id \in DOMAIN calls :
        ( /\ ~calls[id].options.omitted
          /\ calls[id].options.timeOut.t = "undefined"
          /\ Rejected(id) )
        => now >= calls[id].issuedAt + DefaultTimeOut

\* C8: unknown-identifier dispatch.  An invocation of the callback with an
\* identifier fmFetch never issued changes neither the registry nor any call.
C8_UnknownIdNoChange ==
    [][\A results \in RawResults :
          Callback(results, UnknownId) =>
              /\ FETCH_RESULTS' = FETCH_RESULTS
              /\ calls' = calls]_vars

\* C8 witness: the callback was invoked with the unknown identifier while a
\* call was outstanding, and the registry still holds that call's entry and
\* none for the unknown identifier.
C8_Witness ==
    /\ delivered[UnknownId] # <<>>
    /\ FirstDelivery(UnknownId).outstanding # {}
    /\ FirstDelivery(UnknownId).outstanding \subseteq DOMAIN FETCH_RESULTS
    /\ UnknownId \notin DOMAIN FETCH_RESULTS

\* C9: the tie-break favours the result.  A run of the interval callback that
\* finds a result in the entry and the timeOut flag set fulfils the promise
\* with that result, not the timeout error, and deletes the entry.
C9_ResultBeatsTimeout ==
    [][\A id \in DOMAIN calls :
          ( /\ IntervalTick(id)
            /\ id \in DOMAIN FETCH_RESULTS
            /\ ~StrictEq(FETCH_RESULTS[id], STARTED)
            /\ calls[id].timeOut )
          => /\ calls'[id].promise.state = "fulfilled"
             /\ StrictEq(calls'[id].promise.value, FETCH_RESULTS[id])
             /\ ~calls'[id].int
             /\ id \notin DOMAIN FETCH_RESULTS']_vars

\* C9 witness: a promise fulfilled with a result that was delivered after the
\* timeOut flag was set.
C9_Witness ==
    \E id \in DOMAIN calls :
        /\ Fulfilled(id)
        /\ id \in FirstDelivery(id).outstanding
        /\ FirstDelivery(id).timeOut
        /\ StrictEq(calls[id].promise.value, ParseOrKeep(FirstDelivery(id).results))
        /\ id \notin DOMAIN FETCH_RESULTS

\* C10: only the timeout rejects.  A promise is rejected only by a run of its
\* interval callback that finds the timeOut flag set and no result in the
\* entry, and only with the timeout error; an invocation of the callback
\* (malformed, duplicate, unknown or late) never changes a promise.
C10_OnlyTimeoutRejects ==
    [][/\ \A id \in DOMAIN calls' :
            ( /\ calls'[id].promise.state = "rejected"
              /\ id \in DOMAIN calls => calls[id].promise.state # "rejected" )
            => /\ IntervalTick(id)
               /\ calls[id].timeOut
               /\ StrictEq(Get(FETCH_RESULTS, id), STARTED)
               /\ StrictEq(calls'[id].promise.value, TimeoutError)
       /\ \A results \in RawResults, fetchId \in DOMAIN calls \cup {UnknownId} :
            Callback(results, fetchId) =>
                \A id \in DOMAIN calls : calls'[id].promise = calls[id].promise]_vars

\* C10 witness: a call rejected with the timeout error although the callback
\* was invoked with a malformed result for it and with an unknown identifier.
C10_Witness ==
    \E id \in DOMAIN calls :
        /\ Rejected(id)
        /\ StrictEq(calls[id].promise.value, TimeoutError)
        /\ delivered[id] # <<>>
        /\ ~JSONparse(FirstDelivery(id).results).ok
        /\ delivered[UnknownId] # <<>>

C16_EntryWhileUnsettled ==
    \A id \in DOMAIN calls : id \in Outstanding <=> id \in DOMAIN FETCH_RESULTS

\* one call rejected by its timeout and its entry gone, another still pending
\* with a result in its entry
C16_Witness ==
    \E id, other \in DOMAIN calls :
        /\ Rejected(id)
        /\ id \notin DOMAIN FETCH_RESULTS
        /\ other \in Outstanding
        /\ ~StrictEq(Get(FETCH_RESULTS, other), STARTED)

\* the result PerformScript delivered before fmFetch returned
SyncDelivered(id) == delivered[id] # <<>> /\ FirstDelivery(id).sync

\* C17: register before invoke.  A result the host delivers during
\* PerformScript is stored, and the first run of the interval that finds the
\* timeOut flag unset fulfils the promise with that result.
C17_SyncDispatchResolves ==
    [][\A id \in DOMAIN calls :
          SyncDelivered(id) =>
            /\ id \in Outstanding => id \in DOMAIN FETCH_RESULTS
            /\ IntervalTick(id) /\ ~calls[id].timeOut =>
                  /\ calls'[id].promise.state = "fulfilled"
                  /\ StrictEq(calls'[id].promise.value,
                              ParseOrKeep(FirstDelivery(id).results))]_vars

\* the deadline of a call whose options give timeOut as a number
ExplicitTimeOut(id) == calls[id].options.timeOut.t = "number"
Deadline(id) == calls[id].issuedAt + calls[id].options.timeOut.v[1]

\* C18: no early timeout.  A call with an explicit timeOut is not rejected
\* and its timeOut flag is not set before issuance + timeOut; a run of the
\* interval before that time which finds the marker keeps the entry, the
\* interval and the pending promise.
C18_NoEarlyTimeout ==
    /\ [](\A id \in DOMAIN calls :
            ExplicitTimeOut(id) /\ now < Deadline(id) =>
                ~Rejected(id) /\ ~calls[id].timeOut)
    /\ [][\A id \in DOMAIN calls :
            ( /\ ExplicitTimeOut(id)
              /\ now < Deadline(id)
              /\ IntervalTick(id)
              /\ StrictEq(Get(FETCH_RESULTS, id), STARTED) )
            => /\ calls'[id].int
               /\ calls'[id].nextTick = calls[id].nextTick + PollMs
               /\ calls'[id].promise.state = "pending"
               /\ StrictEq(Get(FETCH_RESULTS', id), STARTED)]_vars

\* a call with timeOut 150 that was polled once before its deadline and was
\* rejected by the run of the interval after it
C18_Witness ==
    \E id \in DOMAIN calls :
        /\ ExplicitTimeOut(id)
        /\ Rejected(id)
        /\ delivered[id] = <<>>
        /\ calls[id].nextTick = calls[id].issuedAt + 3 * PollMs

\* the payloads dispatched under id
Dispatched(id) == {ParseOrKeep(delivered[id][i].results) : i \in 1 .. Len(delivered[id])}

\* the step leaves the entry and the closure of call other as they are (an
\* invocation of the callback with id is a step that adds to delivered[id])
Untouched(other) ==
    /\ Get(FETCH_RESULTS', other) = Get(FETCH_RESULTS, other)
    /\ other \in DOMAIN calls => calls'[other] = calls[other]

\* C20: cross-call isolation.  A promise is fulfilled only with a payload
\* dispatched under its own identifier, and an invocation of the callback, a
\* run of the interval or the timer of one call changes neither the entry nor
\* the closure of any other call.
C20_CrossCallIsolation ==
    /\ [](\A id \in DOMAIN calls : Fulfilled(id) => calls[id].promise.value \in Dispatched(id))
    /\ [][\A id \in FetchIds \cup {UnknownId}, other \in FetchIds :
            ( /\ other # id
              /\ \/ delivered'[id] # delivered[id]
                 \/ IntervalTick(id)
                 \/ TimeoutFire(id) )
            => Untouched(other)]_vars

\* the second call is fulfilled with its own payload while the first, issued
\* earlier and given another payload, is still pending
C20_Witness ==
    /\ DOMAIN calls = {1, 2}
    /\ Fulfilled(2)
    /\ 1 \in Outstanding
    /\ delivered[1] # <<>>
    /\ ParseOrKeep(FirstDelivery(1).results) # calls[2].promise.value

\* ---------------------------------------------------- properties of BootSpec
\* the envelope FileMaker.PerformScript got from call id of fmFetch, read
\* back from its text
Envelope(id) == JSONparse(calls[id].param)

\* the last call of an exported function was fmFetch and it returned
LastFetched == ret.op = "fmFetch" /\ ~ret.threw

\* what every envelope of fmFetch carries, EventType apart: the data, the
\* Config and the AddonUUID the call read, its identifier, and the name of
\* the callback
CarriesCorrelation(id, parsed) ==
    LET meta == GetMember(parsed.val, KeyMeta)
    IN  /\ parsed.ok
        /\ GetMember(parsed.val, KeyData) = DefaultData(DataFor(calls[id].options))
        /\ GetMember(meta, KeyConfig) = calls[id].Config
        /\ GetMember(meta, KeyAddonUUID) = calls[id].AddonUUID
        /\ GetMember(meta, KeyFetchId) = IdString(id)
        /\ GetMember(meta, KeyCallback) = JsString(CALLBACK)

EventTypeOf(parsed) == GetMember(GetMember(parsed.val, KeyMeta), KeyEventType)

\* a step of fmFetch that reached PerformScript: the call read the Config
\* and the AddonUUID of the initial properties, its identifier is the key it
\* added to the registry, and PerformScript got the script and the envelope
FetchStepCorrelates ==
    ret' # ret /\ ret'.op = "fmFetch" /\ ~ret'.threw =>
        /\ calls'[ret'.fetchId].Config = getConfigs(window)
        /\ calls'[ret'.fetchId].AddonUUID = getAddonUUID(window)
        /\ DOMAIN FETCH_RESULTS' \ DOMAIN FETCH_RESULTS = {ret'.fetchId}
        /\ ret'.script = Script
        /\ ret'.param = calls'[ret'.fetchId].param

\* C11 as stated: the envelope of a call carries the correlation metadata,
\* and EventType is in Meta exactly when the options object has an eventType.
C11_EventTypeWhenProvided ==
    LastFetched =>
        LET parsed == Envelope(ret.fetchId)
        IN  /\ CarriesCorrelation(ret.fetchId, parsed)
            /\ EventTypeOf(parsed).t # "undefined"
                  <=> calls[ret.fetchId].options.eventType.t # "undefined"

\* C11: envelope correlation metadata.  The envelope fmFetch passes to
\* PerformScript carries the data, the Config and AddonUUID of the initial
\* properties, the identifier this call registered, and the callback's name;
\* EventType is in Meta exactly when options.eventType is truthy (an empty
\* string counts as not given), and then it is that value.
C11_EnvelopeMetadata ==
    /\ [](LastFetched =>
            LET parsed == Envelope(ret.fetchId)
                eventType == calls[ret.fetchId].options.eventType
            IN  /\ CarriesCorrelation(ret.fetchId, parsed)
                /\ EventTypeOf(parsed).t # "undefined" <=> Truthy(eventType)
                /\ Truthy(eventType) => EventTypeOf(parsed) = eventType)
    /\ [][FetchStepCorrelates]_vars

\* a call with {timeOut: 150, eventType: ""} after the properties were loaded:
\* the envelope has the Config and no EventType
C11_Witness ==
    /\ LastFetched
    /\ calls[ret.fetchId].options = EmptyEventOptions
    /\ calls[ret.fetchId].Config.t = "object"
    /\ EventTypeOf(Envelope(ret.fetchId)).t = "undefined"

\* C12: options.Meta reaches the host.  When the caller of fmFetch gives an
\* options.Meta object, every member of it is in the Meta of the envelope
\* that PerformScript gets.
C12_CallerMetaPassed ==
    LastFetched /\ Truthy(calls[ret.fetchId].options.Meta) =>
        LET given == calls[ret.fetchId].options.Meta.v
            meta == GetMember(Envelope(ret.fetchId).val, KeyMeta)
        IN  \A i \in 1 .. Len(given) : GetMember(meta, given[i].k) = given[i].val

\* C14: getConfig.  In every state of the initial properties, getConfig(key)
\* returns config[key].value when the configuration has the key, and throws
\* the missing-config error for that key when it has not.
C14_GetConfig ==
    [][\A key \in ConfigKeys :
          getConfig(key) =>
            LET config == getConfigs(window)
            IN  IF config.t = "object" /\ GetMember(config, key).t = "object"
                THEN ret' = Returned("getConfig", 0, GetMember(GetMember(config, key), KeyValue))
                ELSE ret' = Threw("getConfig", 0, MissingConfig(key))]_vars

\* C15: init waits for the host object.  Every invocation of booter, whether
\* with the default props or with props given to window.loadInitialProps,
\* happens in a state where window.FileMaker is there.
C15_BooterWaitsForFileMaker ==
    \A i \in 1 .. Len(boot.booted) : boot.booted[i].FileMaker

\* C19: no leak when the host fails at once.  After fmFetch has thrown (no
\* window.FileMaker), the registry has no entry for the identifier that call
\* generated.
C19_NoEntryAfterThrow ==
    ret.op = "fmFetch" /\ ret.threw => ret.fetchId \notin DOMAIN FETCH_RESULTS
====
